---------------------------- MODULE Spec2Model ----------------------------
(***************************************************************************)
(* The text-analytics core of the resume builder (src/app.py): tokenize,   *)
(* extract_ngrams, calculate_tfidf, extract_keywords, merge_keywords,      *)
(* enhance_resume, generate_star_bullets and generate_cover_letter.        *)
(*                                                                         *)
(* Texts are TLA+ strings; TLC evaluates Len, SubSeq, Head, Tail and \o on *)
(* them, so every operation below works on the characters of its          *)
(* arguments as the Python code does.  Each operation of the core is one   *)
(* action: it draws its arguments from a bounded set of texts, applies the *)
(* function and records the call and what it returned.                     *)
(***************************************************************************)
EXTENDS Integers, Sequences, FiniteSets, TLC

VARIABLES
    pc,         \* "called" before the operation's body has run, "returned" after
    call,       \* the invocation: the operation's name and its arguments
    keywords,   \* the list extract_keywords handed to the operation (a local)
    scores,     \* calculate_tfidf: the tfidf of every word of every document (a local)
    raised,     \* extract_keywords: the step of its try block that raised, or "none"
    result,     \* the value the operation returned
    process,    \* the interpreter process the invocation runs in
    earlier     \* the invocation made before this one, if any

vars == <<pc, call, keywords, scores, raised, result, process, earlier>>

(***************************************************************************)
(* Characters and Python's str methods.                                    *)
(***************************************************************************)
ascii_lowercase == "abcdefghijklmnopqrstuvwxyz"
ascii_uppercase == "ABCDEFGHIJKLMNOPQRSTUVWXYZ"

Char(s, i) == SubSeq(s, i, i)

CharsOf(s) == {Char(s, i) : i \in 1..Len(s)}

LowerLetters == CharsOf(ascii_lowercase)
UpperLetters == CharsOf(ascii_uppercase)
Digits == CharsOf("0123456789")
Whitespace == {" ", "\n", "\t"}

IndexIn(alphabet, c) == CHOOSE i \in 1..Len(alphabet) : Char(alphabet, i) = c

lower_char(c) ==
    IF c \in UpperLetters THEN Char(ascii_lowercase, IndexIn(ascii_uppercase, c)) ELSE c

upper_char(c) ==
    IF c \in LowerLetters THEN Char(ascii_uppercase, IndexIn(ascii_lowercase, c)) ELSE c

\* str.lower(), character by character (halving the text keeps the
\* evaluation shallow on long texts)
RECURSIVE lower(_)
lower(s) ==
    IF s = "" THEN ""
    ELSE IF Len(s) = 1 THEN lower_char(s)
    ELSE LET half == Len(s) \div 2 IN
         lower(SubSeq(s, 1, half)) \o lower(SubSeq(s, half + 1, Len(s)))

\* str.capitalize(): first character upper-cased, the rest lower-cased
capitalize(s) == IF s = "" THEN "" ELSE upper_char(Head(s)) \o lower(Tail(s))

\* needle in hay
Contains(hay, needle) ==
    \E i \in 1..(Len(hay) - Len(needle) + 1) :
        SubSeq(hay, i, i + Len(needle) - 1) = needle

\* str.startswith / str.endswith
startswith(s, p) == Len(p) <= Len(s) /\ SubSeq(s, 1, Len(p)) = p
endswith(s, p) == Len(p) <= Len(s) /\ SubSeq(s, Len(s) - Len(p) + 1, Len(s)) = p

\* sep.join(list)
RECURSIVE join(_, _)
join(sep, list) ==
    IF list = <<>> THEN ""
    ELSE IF Len(list) = 1 THEN list[1]
    ELSE list[1] \o sep \o join(sep, Tail(list))

\* list[:k]
Take(list, k) == SubSeq(list, 1, IF k < Len(list) THEN k ELSE Len(list))

\* the least and the greatest element of a non-empty set of integers
Min(S) == CHOOSE x \in S : \A y \in S : x <= y
Max(S) == CHOOSE x \in S : \A y \in S : y <= x

\* str.strip()
strip(s) ==
    LET inked == {i \in 1..Len(s) : Char(s, i) \notin Whitespace} IN
    IF inked = {} THEN "" ELSE SubSeq(s, Min(inked), Max(inked))

\* str.split(): the maximal runs of non-whitespace characters
RECURSIVE split_from(_, _)
split_from(s, i) ==
    LET inked == {k \in i..Len(s) : Char(s, k) \notin Whitespace} IN
    IF inked = {} THEN <<>>
    ELSE LET start == Min(inked)
             blank == {k \in start..Len(s) : Char(s, k) \in Whitespace}
             end == IF blank = {} THEN Len(s) ELSE Min(blank) - 1
         IN <<SubSeq(s, start, end)>> \o split_from(s, end + 1)
split(s) == split_from(s, 1)

(***************************************************************************)
(* re.findall(r'\b[a-z]+(?:[_-][a-z]+)*\b', text).  \w is a letter, a      *)
(* digit or the underscore; \b holds between a \w and a non-\w character   *)
(* (or an end of the text).  A run of letters is always taken whole: after *)
(* a shorter run the next character is a letter, where neither \b nor      *)
(* [_-] matches.  The group is greedy and backtracks one repetition at a   *)
(* time until \b holds after the last run.                                 *)
(***************************************************************************)
IsAlpha(c) == c \in LowerLetters
IsWordChar(c) == c \in LowerLetters \cup UpperLetters \cup Digits \cup {"_"}

BoundaryBefore(t, i) == i = 1 \/ ~IsWordChar(Char(t, i - 1))
BoundaryAfter(t, e) == e = Len(t) \/ ~IsWordChar(Char(t, e + 1))

\* the end of the run of letters that starts at i
RunEnd(t, i) ==
    LET others == {k \in i..Len(t) : ~IsAlpha(Char(t, k))} IN
    IF others = {} THEN Len(t) ELSE Min(others) - 1

\* e ends a run of letters: the end of the longest match through e, 0 if none
RECURSIVE GroupEnd(_, _)
GroupEnd(t, e) ==
    LET here == IF BoundaryAfter(t, e) THEN e ELSE 0 IN
    IF e + 2 <= Len(t) /\ Char(t, e + 1) \in {"_", "-"} /\ IsAlpha(Char(t, e + 2))
    THEN LET further == GroupEnd(t, RunEnd(t, e + 2)) IN
         IF further # 0 THEN further ELSE here
    ELSE here

MatchEnd(t, i) ==
    IF IsAlpha(Char(t, i)) /\ BoundaryBefore(t, i) THEN GroupEnd(t, RunEnd(t, i)) ELSE 0

\* the matches from position i on: the leftmost start that has a match,
\* then the matches after that match's end
RECURSIVE findall_from(_, _)
findall_from(t, i) ==
    LET starts == {k \in i..Len(t) : MatchEnd(t, k) # 0} IN
    IF starts = {} THEN <<>>
    ELSE LET start == Min(starts)
             end == MatchEnd(t, start)
         IN <<SubSeq(t, start, end)>> \o findall_from(t, end + 1)

findall_words(t) == findall_from(t, 1)

(***************************************************************************)
(* tokenize                                                                *)
(***************************************************************************)
stop_words == {
    "the", "a", "an", "and", "or", "but", "in", "on", "at", "to", "for",
    "of", "with", "by", "from", "is", "are", "was", "were", "be", "have",
    "has", "had", "do", "does", "did", "will", "would", "could", "should",
    "may", "might", "must", "can", "this", "that", "these", "those", "i",
    "you", "he", "she", "it", "we", "they", "what", "which", "who", "when",
    "where", "why", "how", "all", "each", "every", "both", "few", "more",
    "most", "other", "some", "such", "no", "nor", "not", "only", "same",
    "so", "than", "too", "very", "as", "if", "just", "about", "into"}

\* tokenize without its stop-word filter
KeepsWord_AnyLongWord(w) == Len(w) > 2

KeepsWord(w) == w \notin stop_words /\ Len(w) > 2

tokenize(text) == SelectSeq(findall_words(lower(text)), KeepsWord)

(***************************************************************************)
(* extract_ngrams                                                          *)
(***************************************************************************)
\* the window stopping one position early: range(len(words) - n)
NgramStarts_OneShort(words, n) == 1..(Len(words) - n)

\* range(len(words) - n + 1), shifted to TLA+'s indices from 1
NgramStarts(words, n) == 1..(Len(words) - n + 1)

extract_ngrams(words, n) ==
    [i \in NgramStarts(words, n) |-> join(" ", SubSeq(words, i, i + n - 1))]

(***************************************************************************)
(* collections.Counter and sorted(..., reverse=True).  A Counter keeps its *)
(* keys in the order of their first occurrence; sorted is stable, also     *)
(* with reverse=True, so terms of equal count keep that order.             *)
(***************************************************************************)
Range(list) == {list[i] : i \in 1..Len(list)}

Count(list, x) == Cardinality({i \in 1..Len(list) : list[i] = x})

\* the keys of Counter(list), in insertion order
RECURSIVE CounterKeys(_, _)
CounterKeys(list, seen) ==
    IF list = <<>> THEN <<>>
    ELSE IF Head(list) \in seen THEN CounterKeys(Tail(list), seen)
    ELSE <<Head(list)>> \o CounterKeys(Tail(list), seen \cup {Head(list)})

\* the keys of sorted(Counter(list).items(), key=count, reverse=True)
RECURSIVE SortKeys(_, _)
SortKeys(keys, list) ==
    IF keys = <<>> THEN <<>>
    ELSE LET best == CHOOSE i \in 1..Len(keys) :
                        /\ \A j \in 1..Len(keys) : Count(list, keys[j]) <= Count(list, keys[i])
                        /\ \A j \in 1..(i - 1) : Count(list, keys[j]) < Count(list, keys[i])
             rest == [j \in 1..(Len(keys) - 1) |-> IF j < best THEN keys[j] ELSE keys[j + 1]]
         IN <<keys[best]>> \o SortKeys(rest, list)

sorted_terms(list) == SortKeys(CounterKeys(list, {}), list)

(***************************************************************************)
(* list(set(items)).  A set of strings iterates in the order of its hash   *)
(* table, which depends on the interpreter's per-process string hash seed: *)
(* any order of the distinct elements can come out.  All orders are        *)
(* enumerated for sets of up to MaxShuffle elements; for a larger set the  *)
(* rotations of the insertion order and of its reverse are.                *)
(***************************************************************************)
MaxShuffle == 7

RECURSIVE Orders(_)
Orders(S) ==
    IF S = {} THEN {<<>>}
    ELSE UNION {{<<x>> \o o : o \in Orders(S \ {x})} : x \in S}

Reverse(list) == [i \in 1..Len(list) |-> list[Len(list) + 1 - i]]

Rotations(list) ==
    {[i \in 1..Len(list) |-> list[((i + k - 1) % Len(list)) + 1]] : k \in 0..(Len(list) - 1)}

\* list(items): the deduplication left out
list_of_set_KeepsDuplicates(items) == {items}

list_of_set(items) ==
    LET distinct == CounterKeys(items, {}) IN
    IF Len(distinct) <= MaxShuffle THEN Orders(Range(items))
    ELSE Rotations(distinct) \cup Rotations(Reverse(distinct))

(***************************************************************************)
(* extract_keywords.  Nothing in the try block raises for a string         *)
(* argument, so the except branch is not taken.                            *)
(***************************************************************************)
common_keywords == <<
    "python", "java", "javascript", "sql", "machine learning", "data science",
    "cloud", "aws", "azure", "docker", "kubernetes", "agile", "scrum",
    "project management", "leadership", "communication", "analytics",
    "deep learning", "neural networks", "nlp", "computer vision",
    "tensorflow", "pytorch", "pandas", "numpy",
    "git", "github", "cicd", "rest api", "microservices", "api", "database">>

TopTerms == 20
MaxKeywords == 25

\* all_terms = unigrams + bigrams
all_terms(job_description) ==
    LET tokens == tokenize(job_description) IN tokens \o extract_ngrams(tokens, 2)

\* extracted = [term for term, count in sorted_terms[:20] if count >= 1]
extracted(job_description) ==
    LET terms == all_terms(job_description) IN
    SelectSeq(Take(sorted_terms(terms), TopTerms), LAMBDA term : Count(terms, term) >= 1)

\* found_common = [kw for kw in common_keywords if kw in jd_lower]
found_common(job_description) ==
    LET jd_lower == lower(job_description) IN
    SelectSeq(common_keywords, LAMBDA kw : Contains(jd_lower, kw))

\* the steps of the try block
PrimarySteps == {"tokenize", "extract_ngrams", "Counter", "sorted", "found_common", "set"}

FallbackKeywords == 15

\* the first 15 gazetteer entries, found in the text or not
extract_keywords_fallback_Unfiltered(job_description) ==
    Take(common_keywords, FallbackKeywords)

\* except Exception: return [kw for kw in common_keywords if kw in jd_lower][:15]
extract_keywords_fallback(job_description) ==
    Take(found_common(job_description), FallbackKeywords)

\* the gazetteer matches left out of the union
all_keywords_ExtractedOnly(job_description) == list_of_set(extracted(job_description))

\* all_keywords = list(set(extracted + found_common)): the lists it can be
all_keywords(job_description) ==
    list_of_set(extracted(job_description) \o found_common(job_description))

\* the lists extract_keywords(job_description) can return
extract_keywords(job_description) ==
    IF job_description = "" THEN {<<>>}
    ELSE {Take(all, MaxKeywords) : all \in all_keywords(job_description)}

(***************************************************************************)
(* merge_keywords                                                          *)
(***************************************************************************)
MaxListed == 10

\* missing_keywords = [kw for kw in keywords if kw not in resume_lower]
missing_keywords(resume_text, kws) ==
    LET resume_lower == lower(resume_text) IN
    SelectSeq(kws, LAMBDA kw : ~Contains(resume_lower, kw))

skills_heading(resume_text) ==
    LET resume_lower == lower(resume_text) IN
    IF Contains(resume_lower, "skills") \/ Contains(resume_lower, "technical")
    THEN "\n\nAdditional Skills: "
    ELSE "\n\nRelevant Skills: "

merge_keywords(resume_text, kws) ==
    IF kws = <<>> THEN resume_text
    ELSE LET missing == missing_keywords(resume_text, kws) IN
         IF missing # <<>>
         THEN resume_text \o skills_heading(resume_text) \o join(", ", Take(missing, MaxListed))
         ELSE resume_text

(***************************************************************************)
(* enhance_resume                                                          *)
(***************************************************************************)
generic_summary ==
    "Motivated student seeking opportunities to apply skills, "
    \o "gain professional experience, and contribute effectively to organizational goals."

summary_head == "Results-driven student with practical exposure to "

summary_tail ==
    ". Possesses strong analytical thinking, adaptability, and a continuous learning mindset. "
    \o "Actively seeking opportunities to contribute to impactful projects and grow professionally."

fallback_keywords == <<"problem solving", "communication", "teamwork">>

TopSummaryTerms == 8
KeptResumeTerms == 5
AtsConsidered == 5
AtsSpliced == 3

\* resume_text = " ".join(resume_text.split())
collapse(resume_text) == join(" ", split(resume_text))

\* Counter(tokens).most_common(8), the fallback list if it is empty
top_keywords(resume_text) ==
    LET common == Take(sorted_terms(tokenize(collapse(resume_text))), TopSummaryTerms) IN
    IF common = <<>> THEN fallback_keywords ELSE common

\* every keyword of the list considered, not its first 5 only
relevant_ats_AllKeywords(top, ats_keywords) ==
    LET joined == lower(join(" ", top)) IN
    SelectSeq(ats_keywords, LAMBDA kw : ~Contains(joined, kw))

\* relevant_ats = [kw for kw in ats_keywords[:5] if kw not in ' '.join(top_keywords).lower()]
relevant_ats(top, ats_keywords) ==
    LET joined == lower(join(" ", top)) IN
    SelectSeq(Take(ats_keywords, AtsConsidered), LAMBDA kw : ~Contains(joined, kw))

\* the splice without either cut: all top terms, then the job terms
summary_terms_Uncut(resume_text, job_description, ats_keywords) ==
    LET top == top_keywords(resume_text)
        relevant == IF job_description # "" THEN relevant_ats(top, ats_keywords) ELSE <<>>
    IN top \o Take(relevant, AtsSpliced)

\* the terms rendered: top_keywords after the splice, cut to 8
summary_terms(resume_text, job_description, ats_keywords) ==
    LET top == top_keywords(resume_text)
        relevant == IF job_description # "" THEN relevant_ats(top, ats_keywords) ELSE <<>>
        spliced == IF relevant # <<>>
                   THEN Take(top, KeptResumeTerms) \o Take(relevant, AtsSpliced)
                   ELSE top
    IN Take(spliced, TopSummaryTerms)

\* what enhance_resume returns when extract_keywords(job_description), if it
\* is called, returns ats_keywords
enhance_resume(resume_text, job_description, ats_keywords) ==
    IF collapse(resume_text) = "" THEN generic_summary
    ELSE summary_head
         \o join(", ", summary_terms(resume_text, job_description, ats_keywords))
         \o summary_tail

\* extract_keywords is called only past the early return and with a job description
enhance_resume_calls_extract(resume_text, job_description) ==
    collapse(resume_text) # "" /\ job_description # ""

(***************************************************************************)
(* generate_star_bullets.  The bullet marker of the source is a fixed      *)
(* non-ASCII literal; "* " stands for it.                                  *)
(***************************************************************************)
action_verbs == <<
    "developed", "implemented", "designed", "created", "managed", "led",
    "improved", "optimized", "achieved", "increased", "reduced", "delivered">>

bullet_marker == "* "

generic_bullets == <<
    bullet_marker \o "Applied technical skills to solve complex problems and deliver measurable results.",
    bullet_marker \o "Collaborated with team members to achieve project objectives and meet deadlines.",
    bullet_marker \o "Demonstrated strong problem-solving abilities and attention to detail.">>

MaxSentences == 5
MinSentenceLen == 20
MaxBullets == 5

\* re.split(r'[.!?]\s+', text) from position i on: the pieces between the
\* matches, a match being one of . ! ? and the whole run of whitespace after it
RECURSIVE re_split_from(_, _)
re_split_from(t, i) ==
    LET ends == {k \in i..(Len(t) - 1) :
                    Char(t, k) \in {".", "!", "?"} /\ Char(t, k + 1) \in Whitespace}
    IN IF ends = {} THEN <<SubSeq(t, i, Len(t))>>
       ELSE LET at == Min(ends)
                inked == {k \in (at + 1)..Len(t) : Char(t, k) \notin Whitespace}
                next == IF inked = {} THEN Len(t) + 1 ELSE Min(inked)
            IN <<SubSeq(t, i, at - 1)>> \o re_split_from(t, next)

\* every sentence of the text examined, the sixth and later ones too
examined_sentences_All(experience_text) ==
    LET sentences == re_split_from(experience_text, 1) IN
    [i \in 1..Len(sentences) |-> strip(sentences[i])]

\* for sentence in sentences[:5]: sentence = sentence.strip()
examined_sentences(experience_text) ==
    LET sentences == Take(re_split_from(experience_text, 1), MaxSentences) IN
    [i \in 1..Len(sentences) |-> strip(sentences[i])]

has_action_verb(sentence) ==
    LET lowered == lower(sentence) IN
    \E v \in 1..Len(action_verbs) : Contains(lowered, action_verbs[v])

qualifies(sentence) == Len(sentence) > MinSentenceLen /\ has_action_verb(sentence)

format_bullet(sentence) ==
    LET bullet == bullet_marker \o capitalize(sentence) IN
    IF endswith(bullet, ".") THEN bullet ELSE bullet \o "."

\* the bullets list when the loop ends
star_bullets(experience_text) ==
    LET kept == SelectSeq(examined_sentences(experience_text), qualifies) IN
    [i \in 1..Len(kept) |-> format_bullet(kept[i])]

\* the bullets returned as found, without the generic list
generate_star_bullets_NoFallback(experience_text, job_keywords) ==
    IF experience_text = "" THEN <<>>
    ELSE Take(star_bullets(experience_text), MaxBullets)

\* job_keywords is accepted and never read
generate_star_bullets(experience_text, job_keywords) ==
    IF experience_text = "" THEN <<>>
    ELSE LET bullets == star_bullets(experience_text) IN
         Take(IF bullets = <<>> THEN generic_bullets ELSE bullets, MaxBullets)

(***************************************************************************)
(* generate_cover_letter                                                   *)
(***************************************************************************)
short_letter_head ==
    "Dear Hiring Manager,\n\n"
    \o "I am writing to express my interest in the position. "
    \o "With my background in "

short_letter_tail ==
    ", I am confident I would be a valuable addition to your team.\n\n"
    \o "Sincerely,\n"

long_letter_head ==
    "Dear Hiring Manager,\n\n"
    \o "I am writing to express my strong interest in the position. With my background in "

long_letter_tail ==
    ", \nI am excited about the opportunity to contribute to your team.\n\n"
    \o "My experience aligns well with the requirements you've outlined. I have a proven track record of \n"
    \o "delivering results and working collaboratively in dynamic environments.\n\n"
    \o "I am eager to discuss how my skills and experience can benefit your organization. Thank you for \n"
    \o "considering my application.\n\n"
    \o "Sincerely,\n"

ShortLetterSkills == 3
LongLetterSkills == 5

\* name if name else 'Your Name'
signature(name) == IF name # "" THEN name ELSE "Your Name"

\* what an f-string renders for a list of strings: its repr.  No keyword
\* holds a quote or a backslash, so each element is shown in single quotes.
list_repr(list) ==
    "[" \o join(", ", [i \in 1..Len(list) |-> "'" \o list[i] \o "'"]) \o "]"

\* {extract_keywords(resume_text)[:3] if resume_text else 'relevant field'}
short_letter_background(resume_text, kws) ==
    IF resume_text # "" THEN list_repr(Take(kws, ShortLetterSkills)) ELSE "relevant field"

\* the short letter's cut of 3 applied to the long letter
skills_mentioned_FirstThree(kws) ==
    IF kws # <<>> THEN join(", ", Take(kws, ShortLetterSkills)) ELSE "relevant skills"

\* skills_mentioned = ', '.join(keywords[:5]) if keywords else 'relevant skills'
skills_mentioned(kws) ==
    IF kws # <<>> THEN join(", ", Take(kws, LongLetterSkills)) ELSE "relevant skills"

\* the text extract_keywords is applied to, "" when it is not called
cover_letter_source(job_description, resume_text) ==
    IF job_description # "" THEN job_description ELSE resume_text

\* what generate_cover_letter returns when its call of extract_keywords,
\* if it makes one, returns kws
generate_cover_letter(name, job_description, resume_text, kws) ==
    IF job_description = ""
    THEN short_letter_head \o short_letter_background(resume_text, kws)
         \o short_letter_tail \o signature(name)
    ELSE long_letter_head \o skills_mentioned(kws) \o long_letter_tail \o signature(name)

(***************************************************************************)
(* calculate_tfidf.  Scores are kept exact as fractions num/den of         *)
(* millionths: math.log is tabulated to six decimals, ln_micro[k] being    *)
(* ln(k) * 10^6 rounded, and ln(a/b) taken as ln(a) - ln(b).               *)
(***************************************************************************)
Micro == 1000000

ln_micro == <<0, 693147, 1098612, 1386294, 1609438, 1791759, 1945910, 2079442>>

\* math.log(a / b) in millionths
log_ratio(a, b) == ln_micro[a] - ln_micro[b]

\* the threshold 0.01 is 1/ThresholdInverse
ThresholdInverse == 100

\* doc_tokens
doc_tokens(documents) == [i \in 1..Len(documents) |-> tokenize(documents[i])]

\* docs_with_word = sum(1 for tokens in doc_tokens if word in tokens)
docs_with_word(tokens_of, word) ==
    Cardinality({i \in 1..Len(tokens_of) : word \in Range(tokens_of[i])})

\* math.log((docs_with_word + 1) / total_docs): the ratio upside down
idf_Inverted(tokens_of, word) ==
    log_ratio(docs_with_word(tokens_of, word) + 1, Len(tokens_of))

\* math.log(total_docs / docs_with_word): the + 1 left out
idf_Unsmoothed(tokens_of, word) ==
    log_ratio(Len(tokens_of), docs_with_word(tokens_of, word))

\* idf[word] = math.log(total_docs / (docs_with_word + 1))
idf(tokens_of, word) == log_ratio(Len(tokens_of), docs_with_word(tokens_of, word) + 1)

\* all_words
TermsIn(tokens_of) == UNION {Range(tokens_of[i]) : i \in 1..Len(tokens_of)}

\* tfidf = (count / len(tokens)) * idf.get(word, 0)
tfidf(tokens_of, i, word) ==
    [num |-> Count(tokens_of[i], word) * idf(tokens_of, word), den |-> Len(tokens_of[i])]

\* the tfidf computed for each word of each document (numbered from 1),
\* listed in the result or not
tfidf_values(documents) ==
    LET tokens_of == doc_tokens(documents) IN
    [at \in {pair \in (1..Len(documents)) \X TermsIn(tokens_of) :
                  pair[2] \in Range(tokens_of[pair[1]])}
        |-> tfidf(tokens_of, at[1], at[2])]

\* if tfidf > 0: the threshold forgotten
above_threshold_AnyPositive(score) == score.num > 0

\* if tfidf > 0.01
above_threshold(score) == score.num * ThresholdInverse > score.den * Micro

\* tfidf_scores[word]: a pair for each document, in turn, that holds the
\* word with a score above the threshold; documents are numbered from 0
scored_documents(tokens_of, word) ==
    LET docs == SelectSeq([i \in 1..Len(tokens_of) |-> i],
                          LAMBDA i : /\ word \in Range(tokens_of[i])
                                     /\ above_threshold(tfidf(tokens_of, i, word)))
    IN [k \in 1..Len(docs) |-> <<docs[k] - 1, tfidf(tokens_of, docs[k], word)>>]

calculate_tfidf(documents) ==
    LET tokens_of == doc_tokens(documents)
        all_words == TermsIn(tokens_of)
        scored == {word \in all_words : scored_documents(tokens_of, word) # <<>>}
    IN [word \in scored |-> scored_documents(tokens_of, word)]

(***************************************************************************)
(* Inputs.                                                                 *)
(***************************************************************************)
MaxN == 4

TokenizeTexts == {
    "",
    "   ",
    " \n\t ",
    "Python developer with Python and SQL experience",
    "State-of-the-art C++ tools, e.g. CI/CD",
    "snake_case and kebab-case; v2 api2 x_ _y ab- -cd",
    "An ox is at it",
    "THE Quick brown FOX"}

JobTexts == {
    "",
    "the and of",
    "REST API design",
    "GitHub APIs",
    "Looking for Python and AWS skills",
    "Python developer with Python and SQL experience",
    "We need a Python developer with AWS and Docker experience, strong communication skills",
    "Python Java JavaScript SQL cloud AWS Azure Docker Kubernetes agile scrum leadership "
        \o "communication analytics NLP TensorFlow PyTorch",
    "Seeking pythonic engineers for SQLite, GitLab, cloud-native databases, dockerized microservices-based APIs daily"}

WordLists == {
    <<>>,
    <<"a">>,
    <<"a", "b">>,
    <<"a", "b", "c">>,
    <<"python", "developer", "python", "sql">>,
    <<"x", "y", "x", "y", "x">>}

ResumeTexts == {
    "",
    "  \n ",
    "the  and\nof",
    "I have skills in X",
    "I know Python",
    "TECHNICAL lead: python, SQL and AWS",
    "Built APIs using Python and Docker for two years",
    "SQL, Java, Rust, APIs, Perl, Ruby",
    "Python python sql SQL sql java rust perl ruby scala swift kotlin"}

KeywordLists == {
    <<>>,
    <<"python">>,
    <<"Python">>,
    <<"python", "sql">>,
    <<"SQL", "aws">>,
    <<"Python", "docker">>,
    <<"python", "aws", "docker">>,
    <<"go", "c", "r", "php", "lua", "elm", "nim", "zig", "ada", "cobol", "lisp", "dart">>}

SummaryJobTexts == {
    "",
    "the and of",
    "REST API design",
    "SQL Java APIs",
    "We need a Python developer with AWS and Docker experience, strong communication skills"}

ExperienceTexts == {
    "",
    " ",
    "Short one. Tiny.",
    "No verbs here at all in this sentence",
    "exactly twenty chars led",
    "i LED the Team to victory.",
    "Led. I led the migration of the data platform. done",
    "I developed a REST service for billing.  It reduced costs by 20%! Went home? managed a team of five engineers",
    "Developed the billing service end to end.\nImplemented caching layers for speed. Designed the schema of the warehouse! Created dashboards for the sales team? Managed releases across three teams. Delivered the project two weeks early.",
    "One two three four five six. Seven eight nine ten eleven. Twelve thirteen fourteen. Fifteen sixteen seventeen. Eighteen nineteen twenty. Delivered the project two weeks early."}

StarKeywordLists == {<<>>, <<"python", "sql">>}

Names == {"", "Jane"}

LetterJobTexts == {"", "the and of", "GitHub APIs", "Looking for Python and AWS skills"}

LetterResumeTexts == {"", "the and", "Python developer"}

MaxDocs == 3

DocTexts == {"", "Java SQL", "Python, python and SQL", "Cloud APIs with Python"}

\* a 29-token document whose one "python" scores below the threshold
LongDoc ==
    "data data data data data data data data data data data data data data "
    \o "data data data data data data data data data data data data data data python"

Corpora ==
    UNION {[1..k -> DocTexts] : k \in 0..MaxDocs}
    \cup {<<LongDoc, "python sql", "java sql", "cloud api">>,
          <<"", "java sql", "", "rust rust go">>}

(***************************************************************************)
(* The operations.  An invocation starts with its arguments bound          *)
(* (pc = "called") and takes one step, the whole function body, to the     *)
(* state that holds what it returned (pc = "returned").  No operation      *)
(* reads or writes anything but its arguments and locals; the order in     *)
(* which a set of strings iterates is fixed by the string hashes of the    *)
(* interpreter process, so it is the same for the same set within a        *)
(* process and free in another process.                                    *)
(***************************************************************************)
TokenizeCalls == {[op |-> "tokenize", text |-> t] : t \in TokenizeTexts}

ExtractNgramsCalls ==
    {[op |-> "extract_ngrams", words |-> w, n |-> n] : w \in WordLists, n \in 1..MaxN}

ExtractKeywordsCalls == {[op |-> "extract_keywords", job_description |-> t] : t \in JobTexts}

MergeKeywordsCalls ==
    {[op |-> "merge_keywords", resume_text |-> r, keywords |-> k] :
        r \in ResumeTexts, k \in KeywordLists}

EnhanceResumeCalls ==
    {[op |-> "enhance_resume", resume_text |-> r, job_description |-> j] :
        r \in ResumeTexts, j \in SummaryJobTexts}

GenerateStarBulletsCalls ==
    {[op |-> "generate_star_bullets", experience_text |-> e, job_keywords |-> k] :
        e \in ExperienceTexts, k \in StarKeywordLists}

GenerateCoverLetterCalls ==
    {[op |-> "generate_cover_letter", name |-> n, job_description |-> j, resume_text |-> r] :
        n \in Names, j \in LetterJobTexts, r \in LetterResumeTexts}

CalculateTfidfCalls == {[op |-> "calculate_tfidf", documents |-> d] : d \in Corpora}

\* no invocation yet
NoInvocation ==
    [call |-> [op |-> "none"], keywords |-> <<>>, scores |-> <<>>, result |-> <<>>, process |-> 0]

\* an invocation starts with nothing computed, in the first process
Fresh ==
    /\ pc = "called"
    /\ keywords = <<>>
    /\ scores = <<>>
    /\ raised = "none"
    /\ result = <<>>
    /\ process = 1
    /\ earlier = NoInvocation

Init ==
    /\ \/ call \in TokenizeCalls
       \/ call \in ExtractNgramsCalls
       \/ call \in CalculateTfidfCalls
       \/ call \in ExtractKeywordsCalls
       \/ call \in MergeKeywordsCalls
       \/ call \in EnhanceResumeCalls
       \/ call \in GenerateStarBulletsCalls
       \/ call \in GenerateCoverLetterCalls
    /\ Fresh

\* this process has already run this very invocation: every set it builds
\* iterates as it did then
SameProcessAgain == earlier.call = call /\ earlier.process = process

Tokenize ==
    /\ pc = "called"
    /\ call.op = "tokenize"
    /\ result' = tokenize(call.text)
    /\ pc' = "returned"
    /\ UNCHANGED <<call, keywords, scores, raised, process, earlier>>

ExtractNgrams ==
    /\ pc = "called"
    /\ call.op = "extract_ngrams"
    /\ result' = extract_ngrams(call.words, call.n)
    /\ pc' = "returned"
    /\ UNCHANGED <<call, keywords, scores, raised, process, earlier>>

CalculateTfidf ==
    /\ pc = "called"
    /\ call.op = "calculate_tfidf"
    /\ scores' = tfidf_values(call.documents)
    /\ result' = calculate_tfidf(call.documents)
    /\ pc' = "returned"
    /\ UNCHANGED <<call, keywords, raised, process, earlier>>

ExtractKeywords ==
    /\ pc = "called"
    /\ call.op = "extract_keywords"
    /\ result' \in (IF SameProcessAgain THEN {earlier.result}
                    ELSE extract_keywords(call.job_description))
    /\ pc' = "returned"
    /\ UNCHANGED <<call, keywords, scores, raised, process, earlier>>

\* a step of the try block raises and the except branch returns
ExtractKeywordsRecovering ==
    /\ pc = "called"
    /\ call.op = "extract_keywords"
    /\ call.job_description # ""
    /\ raised' \in PrimarySteps
    /\ result' = extract_keywords_fallback(call.job_description)
    /\ pc' = "returned"
    /\ UNCHANGED <<call, keywords, scores, process, earlier>>

MergeKeywords ==
    /\ pc = "called"
    /\ call.op = "merge_keywords"
    /\ result' = merge_keywords(call.resume_text, call.keywords)
    /\ pc' = "returned"
    /\ UNCHANGED <<call, keywords, scores, raised, process, earlier>>

EnhanceResume ==
    /\ pc = "called"
    /\ call.op = "enhance_resume"
    /\ keywords' \in (IF SameProcessAgain THEN {earlier.keywords}
                      ELSE IF enhance_resume_calls_extract(call.resume_text, call.job_description)
                           THEN extract_keywords(call.job_description)
                           ELSE {<<>>})
    /\ result' = enhance_resume(call.resume_text, call.job_description, keywords')
    /\ pc' = "returned"
    /\ UNCHANGED <<call, scores, raised, process, earlier>>

GenerateStarBullets ==
    /\ pc = "called"
    /\ call.op = "generate_star_bullets"
    /\ result' = generate_star_bullets(call.experience_text, call.job_keywords)
    /\ pc' = "returned"
    /\ UNCHANGED <<call, keywords, scores, raised, process, earlier>>

GenerateCoverLetter ==
    /\ pc = "called"
    /\ call.op = "generate_cover_letter"
    /\ keywords' \in (IF SameProcessAgain THEN {earlier.keywords}
                      ELSE extract_keywords(cover_letter_source(call.job_description,
                                                                call.resume_text)))
    /\ result' = generate_cover_letter(call.name, call.job_description, call.resume_text, keywords')
    /\ pc' = "returned"
    /\ UNCHANGED <<call, scores, raised, process, earlier>>

Next ==
    \/ Tokenize
    \/ ExtractNgrams
    \/ CalculateTfidf
    \/ ExtractKeywords
    \/ MergeKeywords
    \/ EnhanceResume
    \/ GenerateStarBullets
    \/ GenerateCoverLetter

Spec == Init /\ [][Next]_vars

(***************************************************************************)
(* The same, with a step of extract_keywords' try block free to raise.     *)
(***************************************************************************)
NextFault == Next \/ ExtractKeywordsRecovering

SpecFault == Init /\ [][NextFault]_vars

(***************************************************************************)
(* A second invocation after the first: the same operation with the same   *)
(* arguments, in the same interpreter process or in a new one, or          *)
(* calculate_tfidf on the corpus with one more occurrence of a term in one *)
(* document.                                                               *)
(***************************************************************************)
RepeatedJobTexts == {"", "Python developer"}

RepeatedCorpora == UNION {[1..k -> DocTexts] : k \in 0..MaxDocs}

RepeatedCalls ==
    TokenizeCalls \cup ExtractNgramsCalls
    \cup {[op |-> "calculate_tfidf", documents |-> d] : d \in RepeatedCorpora}
    \cup MergeKeywordsCalls \cup GenerateStarBulletsCalls
    \cup {[op |-> "extract_keywords", job_description |-> j] : j \in RepeatedJobTexts}
    \cup {[op |-> "enhance_resume", resume_text |-> r, job_description |-> j] :
            r \in {"", "I know Python"}, j \in RepeatedJobTexts}
    \cup {[op |-> "generate_cover_letter", name |-> "Jane", job_description |-> j,
           resume_text |-> "Python developer"] : j \in RepeatedJobTexts}

InitRepeat ==
    /\ call \in RepeatedCalls
    /\ Fresh

\* what the invocation that has just returned leaves behind
Invocation ==
    [call |-> call, keywords |-> keywords, scores |-> scores, result |-> result,
     process |-> process]

Reinvoke ==
    /\ pc = "returned"
    /\ earlier.call.op = "none"
    /\ earlier' = Invocation
    /\ process' \in {process, process + 1}
    /\ pc' = "called"
    /\ keywords' = <<>>
    /\ scores' = <<>>
    /\ result' = <<>>
    /\ UNCHANGED <<call, raised>>

\* documents with one more occurrence of term at the end of document i
with_one_more(documents, i, term) ==
    [documents EXCEPT ![i] = IF @ = "" THEN term ELSE @ \o " " \o term]

IncreaseFrequency ==
    /\ pc = "returned"
    /\ call.op = "calculate_tfidf"
    /\ earlier.call.op = "none"
    /\ earlier' = Invocation
    /\ \E i \in 1..Len(call.documents), term \in TermsIn(doc_tokens(call.documents)) :
          call' = [call EXCEPT !.documents = with_one_more(call.documents, i, term)]
    /\ pc' = "called"
    /\ keywords' = <<>>
    /\ scores' = <<>>
    /\ result' = <<>>
    /\ UNCHANGED <<raised, process>>

NextRepeat == Next \/ Reinvoke \/ IncreaseFrequency

SpecRepeat == InitRepeat /\ [][NextRepeat]_vars

(***************************************************************************)
(* Properties.                                                             *)
(***************************************************************************)
Returned(op) == pc = "returned" /\ call.op = op

NoDuplicates(list) == \A i, j \in 1..Len(list) : list[i] = list[j] => i = j

\* the first index >= from at which needle occurs in hay, 0 if there is none
FindFrom(hay, needle, from) ==
    LET at == {i \in from..(Len(hay) - Len(needle) + 1) :
                  SubSeq(hay, i, i + Len(needle) - 1) = needle}
    IN IF at = {} THEN 0 ELSE CHOOSE i \in at : \A k \in at : i <= k

\* the tokens occur in hay one after the other, without overlap
RECURSIVE OccurInOrder(_, _, _)
OccurInOrder(tokens, hay, from) ==
    \/ tokens = <<>>
    \/ LET at == FindFrom(hay, Head(tokens), from) IN
       /\ at # 0
       /\ OccurInOrder(Tail(tokens), hay, at + Len(Head(tokens)))

OnlyWhitespace(text) == \A i \in 1..Len(text) : Char(text, i) \in Whitespace

\* C4: every token tokenize returns is lowercase, at least 3 characters long
\* and no stop word; the tokens occur in the text in the order returned; an
\* empty or whitespace-only text gives the empty sequence.
C4_TokenizeFilters ==
    Returned("tokenize") =>
        /\ \A i \in 1..Len(result) :
              /\ result[i] = lower(result[i])
              /\ \A k \in 1..Len(result[i]) : Char(result[i], k) \notin UpperLetters
              /\ Len(result[i]) >= 3
              /\ result[i] \notin stop_words
        /\ OccurInOrder(result, lower(call.text), 1)
        /\ OnlyWhitespace(call.text) => result = <<>>

C4_Witness ==
    /\ Returned("tokenize")
    /\ call.text = "Python developer with Python and SQL experience"
    /\ result = <<"python", "developer", "python", "sql", "experience">>

RECURSIVE SpacedWindow(_, _, _)
SpacedWindow(words, from, to) ==
    IF from = to THEN words[from]
    ELSE words[from] \o " " \o SpacedWindow(words, from + 1, to)

\* C5: for L tokens and n >= 1 extract_ngrams returns max(0, L - n + 1)
\* n-grams, the i-th being tokens i..i+n-1 joined by single spaces.
C5_NgramWindows ==
    Returned("extract_ngrams") =>
        LET L == Len(call.words)
            n == call.n
        IN /\ Len(result) = (IF L - n + 1 > 0 THEN L - n + 1 ELSE 0)
           /\ \A i \in 1..Len(result) : result[i] = SpacedWindow(call.words, i, i + n - 1)
           /\ (call.words = <<"a", "b", "c">> /\ n = 2) => result = <<"a b", "b c">>
           /\ n > L => result = <<>>

C5_Witness ==
    /\ Returned("extract_ngrams")
    /\ call.words = <<"a", "b", "c">>
    /\ call.n = 2
    /\ result = <<"a b", "b c">>

\* term a ranks before term b among terms: it occurs more often, or as
\* often and first occurs earlier
FirstAt(terms, t) == CHOOSE i \in 1..Len(terms) : terms[i] = t /\ \A k \in 1..(i - 1) : terms[k] # t

RanksBefore(terms, a, b) ==
    \/ Count(terms, a) > Count(terms, b)
    \/ Count(terms, a) = Count(terms, b) /\ FirstAt(terms, a) < FirstAt(terms, b)

\* the terms (unigrams and bigrams of the tokenized text) that fewer than
\* TopTerms other terms rank before
TopRanked(text) ==
    LET tokens == tokenize(text)
        terms == tokens \o [i \in 1..(Len(tokens) - 1) |-> tokens[i] \o " " \o tokens[i + 1]]
    IN {t \in Range(terms) :
           Cardinality({u \in Range(terms) : RanksBefore(terms, u, t)}) < TopTerms}

\* the gazetteer keywords contained in the lowercased text
GazetteerHits(text) ==
    LET lowered == lower(text) IN {kw \in Range(common_keywords) : Contains(lowered, kw)}

\* both, tabulated over the job descriptions of the model
CandidateTable ==
    {[text |-> text, top |-> TopRanked(text), hits |-> GazetteerHits(text)] : text \in JobTexts}

CandidatesOf(text) == CHOOSE row \in CandidateTable : row.text = text

\* C1: extract_keywords returns at most 25 strings, no two equal, each a
\* top-20 frequency-ranked term or a gazetteer keyword contained in the
\* lowercased text; for the empty text it returns the empty list.
C1_KeywordListShape ==
    Returned("extract_keywords") =>
        /\ Len(result) <= 25
        /\ NoDuplicates(result)
        /\ Range(result) \subseteq
              CandidatesOf(call.job_description).top \cup CandidatesOf(call.job_description).hits
        /\ call.job_description = "" => result = <<>>

\* the cap applied: 28 candidates, 25 returned
C1_Witness ==
    /\ Returned("extract_keywords")
    /\ Cardinality(CandidatesOf(call.job_description).top
                   \cup CandidatesOf(call.job_description).hits) > 25
    /\ Len(result) = 25

\* C2 as stated: every gazetteer keyword contained in the lowercased text is
\* in the list extract_keywords returns, whatever the ranking and the cap.
C2_EveryGazetteerHitReturned ==
    Returned("extract_keywords") =>
        CandidatesOf(call.job_description).hits \subseteq Range(result)

\* C2 amended: when the top-20 terms and the gazetteer keywords contained in
\* the text are at most 25 strings together, every such gazetteer keyword is
\* in the returned list.
C2_GazetteerHitsReturnedUnderCap ==
    Returned("extract_keywords") =>
        LET hits == CandidatesOf(call.job_description).hits IN
        Cardinality(CandidatesOf(call.job_description).top \cup hits) <= 25
            => hits \subseteq Range(result)

C2_Witness ==
    /\ Returned("extract_keywords")
    /\ call.job_description =
          "We need a Python developer with AWS and Docker experience, strong communication skills"
    /\ {"python", "aws", "docker"} \subseteq Range(result)

\* C3 as stated: merge_keywords returns the resume text unchanged when the
\* keyword list is empty and whenever every keyword occurs in the text under
\* case-insensitive comparison.
C3_UnchangedWhenAllPresent ==
    Returned("merge_keywords") =>
        LET resume_lower == lower(call.resume_text) IN
        (\A i \in 1..Len(call.keywords) : Contains(resume_lower, lower(call.keywords[i])))
            => result = call.resume_text

\* the pieces of s between the occurrences of sep
RECURSIVE SplitOn(_, _)
SplitOn(s, sep) ==
    LET at == FindFrom(s, sep, 1) IN
    IF at = 0 THEN <<s>>
    ELSE <<SubSeq(s, 1, at - 1)>> \o SplitOn(SubSeq(s, at + Len(sep), Len(s)), sep)

\* the terms a summary lists between its fixed opening and its fixed close
ListedTerms(summary) ==
    SplitOn(SubSeq(summary, Len(summary_head) + 1, Len(summary) - Len(summary_tail)), ", ")

\* summary is the template filled with 1 to 8 comma-joined terms, the
\* fallback terms first when no token of the resume survives filtering
RendersSummary(summary, resume_text) ==
    /\ Len(summary) > Len(summary_head) + Len(summary_tail)
    /\ startswith(summary, "Results-driven student with practical exposure to ")
    /\ endswith(summary, summary_tail)
    /\ Len(ListedTerms(summary)) \in 1..8
    /\ tokenize(resume_text) = <<>> =>
          SubSeq(ListedTerms(summary), 1, 3) = <<"problem solving", "communication", "teamwork">>

\* C6 as stated: the generic sentence for the empty resume text, the
\* rendered template for every non-empty one.
C6_TemplateForEveryNonEmptyText ==
    Returned("enhance_resume") =>
        /\ call.resume_text = "" => result = generic_summary
        /\ call.resume_text # "" => RendersSummary(result, call.resume_text)

\* C6 amended: the generic sentence when the resume text is empty or holds
\* only whitespace; for every resume text with a non-whitespace character the
\* template with at most 8 comma-joined terms, the fallback terms when no
\* token survives filtering.
C6_TemplateForEveryInkedText ==
    Returned("enhance_resume") =>
        /\ OnlyWhitespace(call.resume_text) =>
              result = "Motivated student seeking opportunities to apply skills, "
                       \o "gain professional experience, and contribute effectively "
                       \o "to organizational goals."
        /\ ~OnlyWhitespace(call.resume_text) => RendersSummary(result, call.resume_text)

\* a resume of more than 8 distinct tokens with job keywords spliced in
C6_Witness ==
    /\ Returned("enhance_resume")
    /\ Cardinality(Range(tokenize(call.resume_text))) > 8
    /\ call.job_description # ""
    /\ Len(ListedTerms(result)) = 8
    /\ ListedTerms(result)[6] \in Range(keywords)

Qualifying(sentence) ==
    /\ Len(sentence) > 20
    /\ \E v \in 1..Len(action_verbs) : Contains(lower(sentence), action_verbs[v])

\* C7: generate_star_bullets returns the empty list for the empty text and
\* 1 to 5 bullets for every other text; when no examined sentence qualifies
\* it returns exactly the 3 generic bullets.
C7_BulletCount ==
    Returned("generate_star_bullets") =>
        LET examined == examined_sentences(call.experience_text) IN
        /\ call.experience_text = "" => result = <<>>
        /\ call.experience_text # "" => Len(result) \in 1..5
        /\ (call.experience_text # "" /\ \A i \in 1..Len(examined) : ~Qualifying(examined[i]))
              => result = generic_bullets /\ Len(result) = 3

C7_Witness ==
    /\ Returned("generate_star_bullets")
    /\ call.experience_text = "Short one. Tiny."
    /\ result = generic_bullets

\* C8 as stated: with no job description the letter reads "With my
\* background in" the first up to 3 keywords of the resume text, comma-joined,
\* or "relevant field" for the empty resume text, and is signed with the name
\* or "Your Name".
C8_ShortLetterPhrase ==
    (/\ Returned("generate_cover_letter")
     /\ call.job_description = ""
     /\ call.resume_text = "" \/ keywords # <<>>) =>
        LET phrase == IF call.resume_text = "" THEN "relevant field"
                      ELSE join(", ", Take(keywords, 3))
            signer == IF call.name = "" THEN "Your Name" ELSE call.name
        IN /\ Contains(result, "With my background in " \o phrase \o ", I am confident")
           /\ endswith(result, "Sincerely,\n" \o signer)

\* C9: with a job description the letter is the long template, signed with
\* the name or "Your Name", its background phrase the first min(5, k) of the k
\* keywords extract_keywords returned, comma-joined, or "relevant skills"
\* for k = 0; for "Jane" and "Looking for Python and AWS skills" it holds
\* "Jane" and "python" or "aws" whatever the order of the keyword list.
C9_LongLetterPhrase ==
    (Returned("generate_cover_letter") /\ call.job_description # "") =>
        LET k == Len(keywords)
            candidates == CandidatesOf(call.job_description).top
                          \cup CandidatesOf(call.job_description).hits
            phrase == IF k = 0 THEN "relevant skills"
                      ELSE join(", ", SubSeq(keywords, 1, IF k < 5 THEN k ELSE 5))
            signer == IF call.name = "" THEN "Your Name" ELSE call.name
        IN /\ NoDuplicates(keywords)
           /\ Range(keywords) \subseteq candidates
           /\ k = (IF Cardinality(candidates) < 25 THEN Cardinality(candidates) ELSE 25)
           /\ startswith(result, long_letter_head \o phrase \o ", \nI am excited")
           /\ endswith(result, "Sincerely,\n" \o signer)
           /\ Len(result) = Len(long_letter_head) + Len(phrase)
                            + Len(long_letter_tail) + Len(signer)
           /\ (call.name = "Jane" /\ call.job_description = "Looking for Python and AWS skills")
                 => /\ Contains(result, "Jane")
                    /\ Contains(result, "python") \/ Contains(result, "aws")

\* the order least favourable to the example: both terms without "python"
\* or "aws" come first
C9_Witness ==
    /\ Returned("generate_cover_letter")
    /\ call.name = "Jane"
    /\ call.job_description = "Looking for Python and AWS skills"
    /\ SubSeq(keywords, 1, 2) = <<"looking", "skills">>
    /\ Contains(result, "looking, skills, ")

\* the score of term in document i (from 1) of documents, in millionths
ScoreOf(documents, i, term) ==
    LET tokens == tokenize(documents[i])
        containing == Cardinality({d \in 1..Len(documents) : term \in Range(tokenize(documents[d]))})
    IN [num |-> Count(tokens, term) * (ln_micro[Len(documents)] - ln_micro[containing + 1]),
        den |-> Len(tokens)]

\* num/den millionths > 0.01
OverOneHundredth(score) == score.num * 100 > score.den * 1000000

\* C10: every (document index, score) pair calculate_tfidf returns has
\* score > 0.01, the score being count/tokens * ln(total/(containing + 1)); a
\* (term, document) pair is listed exactly when its score is above 0.01; a
\* document with no tokens has no pair.
C10_ScoresAboveThreshold ==
    Returned("calculate_tfidf") =>
        LET documents == call.documents
            Listed(term, i) ==
                term \in DOMAIN result /\ \E k \in 1..Len(result[term]) : result[term][k][1] = i - 1
        IN /\ \A term \in DOMAIN result :
                /\ result[term] # <<>>
                /\ \A k \in 1..Len(result[term]) :
                      LET i == result[term][k][1] + 1
                          score == result[term][k][2]
                      IN /\ i \in 1..Len(documents)
                         /\ term \in Range(tokenize(documents[i]))
                         /\ score = ScoreOf(documents, i, term)
                         /\ OverOneHundredth(score)
           /\ \A i \in 1..Len(documents) :
                 /\ \A term \in Range(tokenize(documents[i])) :
                       Listed(term, i) <=> OverOneHundredth(ScoreOf(documents, i, term))
                 /\ tokenize(documents[i]) = <<>> => \A term \in DOMAIN result : ~Listed(term, i)

\* "python" scores 1/29 * ln(4/3) < 0.01 in the long document and is left
\* out there, and is listed for the second document
C10_Witness ==
    /\ Returned("calculate_tfidf")
    /\ Len(call.documents) = 4
    /\ call.documents[1] = LongDoc
    /\ "python" \in DOMAIN result
    /\ result["python"] = <<<<1, [num |-> 287682, den |-> 2]>>>>
    /\ result["data"][1][1] = 0

(***************************************************************************)
(* C16                                                                     *)
(***************************************************************************)
\* the text of a bullet after its marker
BulletBody(bullet) == SubSeq(bullet, Len(bullet_marker) + 1, Len(bullet))

\* the first character raised, every other character lowered
Capitalized(sentence) ==
    IF sentence = "" THEN ""
    ELSE upper_char(Head(sentence)) \o lower(Tail(sentence))

\* C16: generate_star_bullets examines only the first 5 pieces of the text
\* split at a . ! or ? followed by whitespace; when one of them qualifies
\* (trimmed length > 20 and an action verb inside, whatever the case), the
\* result has one bullet for each qualifying piece among those 5, in their
\* order, each the marker, the capitalized piece and a closing period; a
\* qualifying piece at position 6 or later gives no bullet.
C16_BulletPerExaminedSentence ==
    Returned("generate_star_bullets") =>
        LET pieces == re_split_from(call.experience_text, 1)
            examined == [i \in 1..(IF Len(pieces) < 5 THEN Len(pieces) ELSE 5) |-> strip(pieces[i])]
            hits == SelectSeq(examined, Qualifying)
            later == {strip(pieces[i]) : i \in 6..Len(pieces)} \ Range(examined)
        IN /\ hits # <<>> =>
                 /\ Len(result) = Len(hits)
                 /\ \A k \in 1..Len(hits) :
                       /\ startswith(result[k], bullet_marker)
                       /\ endswith(result[k], ".")
                       /\ BulletBody(result[k]) \in
                             {Capitalized(hits[k]), Capitalized(hits[k]) \o "."}
                       /\ endswith(hits[k], ".") => BulletBody(result[k]) = Capitalized(hits[k])
           /\ \A sentence \in later :
                 Qualifying(sentence) =>
                    \A k \in 1..Len(result) :
                       BulletBody(result[k]) \notin
                          {Capitalized(sentence), Capitalized(sentence) \o "."}

\* six qualifying sentences: five bullets, the sixth sentence ("Delivered
\* ...") in none of them
C16_Witness ==
    /\ Returned("generate_star_bullets")
    /\ Len(re_split_from(call.experience_text, 1)) = 6
    /\ Qualifying(strip(re_split_from(call.experience_text, 1)[6]))
    /\ Len(result) = 5
    /\ result[1] = bullet_marker \o "Developed the billing service end to end."
    /\ result[5] = bullet_marker \o "Managed releases across three teams."
    /\ \A k \in 1..5 : ~Contains(result[k], "elivered")

(***************************************************************************)
(* C17                                                                     *)
(***************************************************************************)
\* the documents (from 1) whose tokens hold term
Containing(documents, term) ==
    {i \in 1..Len(documents) : term \in Range(tokenize(documents[i]))}

\* C17: a term held by every document of the corpus, or by all but one, has
\* idf = ln(total/(containing + 1)) <= 0 and is not a key of the mapping
\* calculate_tfidf returns; a corpus of one document gives the empty
\* mapping; each term's list has at most one pair per document, in ascending
\* document index, and only for documents that hold the term.
C17_CommonTermsUnscored ==
    Returned("calculate_tfidf") =>
        LET documents == call.documents
            total == Len(documents)
            terms == UNION {Range(tokenize(documents[i])) : i \in 1..total}
        IN /\ \A term \in terms :
                 Cardinality(Containing(documents, term)) >= total - 1 =>
                    /\ ln_micro[total] - ln_micro[Cardinality(Containing(documents, term)) + 1] <= 0
                    /\ term \notin DOMAIN result
           /\ total = 1 => DOMAIN result = {}
           /\ \A term \in DOMAIN result :
                 /\ \A k \in 1..Len(result[term]) :
                       result[term][k][1] + 1 \in Containing(documents, term)
                 /\ \A k \in 1..(Len(result[term]) - 1) :
                       result[term][k][1] < result[term][k + 1][1]

\* of three documents "sql" and "python" are each in two and left out, the
\* terms of one document are listed
C17_Witness ==
    /\ Returned("calculate_tfidf")
    /\ call.documents = <<"Java SQL", "Python, python and SQL", "Cloud APIs with Python">>
    /\ DOMAIN result = {"java", "cloud", "apis"}

(***************************************************************************)
(* C15                                                                     *)
(***************************************************************************)
\* C15: when m >= 1 of the keywords are missing from the resume (not a
\* substring of it, whatever the case), merge_keywords returns the resume
\* text, a blank line, the heading "Additional Skills:" if the lowercased
\* resume holds "skills" or "technical" and "Relevant Skills:" otherwise,
\* and the first min(10, m) missing keywords in list order, comma-joined; no
\* keyword present in the resume is listed.
C15_AddendumListsMissingOnly ==
    Returned("merge_keywords") =>
        LET resume_lower == lower(call.resume_text)
            Missing(kw) == ~Contains(resume_lower, lower(kw))
            missing == SelectSeq(call.keywords, Missing)
            heading == IF Contains(resume_lower, "skills") \/ Contains(resume_lower, "technical")
                       THEN "Additional Skills: "
                       ELSE "Relevant Skills: "
            listed == SubSeq(missing, 1, IF Len(missing) < 10 THEN Len(missing) ELSE 10)
        IN missing # <<>> =>
              result = call.resume_text \o "\n\n" \o heading \o join(", ", listed)

(***************************************************************************)
(* C14                                                                     *)
(***************************************************************************)
EndToEndResume == "Built APIs using Python and Docker for two years"

EndToEndJob ==
    "We need a Python developer with AWS and Docker experience, strong communication skills"

\* the end-to-end scenario lists "python" and "docker"
EndToEndSummary ==
    (call.resume_text = EndToEndResume /\ call.job_description = EndToEndJob) =>
        {"python", "docker"} \subseteq Range(ListedTerms(result))

ScoreAt(table, i, term) ==
    IF <<i, term>> \in DOMAIN table THEN table[<<i, term>>] ELSE [num |-> 0, den |-> 1]

\* a >= b, for fractions with positive denominators
NotLower(a, b) == a.num * b.den >= b.num * a.den

\* documents is corpus with more occurrences of term in document i and
\* every other document as it was
MoreFrequentIn(corpus, documents, i, term) ==
    /\ Len(corpus) = Len(documents)
    /\ \A j \in 1..Len(documents) : j # i => documents[j] = corpus[j]
    /\ Count(tokenize(documents[i]), term) > Count(tokenize(corpus[i]), term)

\* C11 as stated: with more occurrences of a term in one document and the
\* rest of the corpus as it was, calculate_tfidf computes a tf * idf for the
\* term in that document that is not lower than before.
C11_MoreFrequentNeverLower ==
    (Returned("calculate_tfidf") /\ earlier.call.op = "calculate_tfidf") =>
        \A i \in 1..Len(call.documents) :
            \A term \in Range(tokenize(call.documents[i])) :
                MoreFrequentIn(earlier.call.documents, call.documents, i, term)
                    => NotLower(ScoreAt(scores, i, term), ScoreAt(earlier.scores, i, term))

\* C11, amended: the same, for a term that at least one document of the
\* corpus does not hold, whose idf = ln(total/(containing + 1)) is then not
\* negative.
C11_MoreFrequentNeverLowerUnlessInAll ==
    (Returned("calculate_tfidf") /\ earlier.call.op = "calculate_tfidf") =>
        \A i \in 1..Len(call.documents) :
            \A term \in Range(tokenize(call.documents[i])) :
                (/\ MoreFrequentIn(earlier.call.documents, call.documents, i, term)
                 /\ Cardinality(Containing(call.documents, term)) < Len(call.documents))
                    => NotLower(ScoreAt(scores, i, term), ScoreAt(earlier.scores, i, term))

\* "java" once of two tokens, then twice of three, in the first of three
\* documents: 1/2 * ln(3/2) rises to 2/3 * ln(3/2)
C11_Witness ==
    /\ Returned("calculate_tfidf")
    /\ earlier.call.op = "calculate_tfidf"
    /\ earlier.call.documents = <<"Java SQL", "", "">>
    /\ call.documents = <<"Java SQL java", "", "">>
    /\ earlier.scores[<<1, "java">>] = [num |-> 405465, den |-> 2]
    /\ scores[<<1, "java">>] = [num |-> 810930, den |-> 3]

(***************************************************************************)
(* C13                                                                     *)
(***************************************************************************)
\* C13: two invocations of extract_keywords, enhance_resume or
\* generate_cover_letter with equal arguments return equal results, the
\* same elements in the same order and the same text, whatever the order in
\* which the set of extract_keywords iterates.
C13_EqualArgumentsEqualResults ==
    (/\ pc = "returned"
     /\ call.op \in {"extract_keywords", "enhance_resume", "generate_cover_letter"}
     /\ earlier.call = call)
        => result = earlier.result

(***************************************************************************)
(* C12                                                                     *)
(***************************************************************************)
\* the gazetteer entries found in the lowercased text, in gazetteer order
GazetteerHitsInOrder(text) ==
    LET lowered == lower(text) IN
    SelectSeq(common_keywords, LAMBDA kw : Contains(lowered, kw))

\* C12: no invocation ends raising to its caller; when a step of
\* extract_keywords' primary path raises, the invocation returns and the
\* result is the gazetteer entries found in the lowercased job description,
\* in gazetteer order, cut to the first 15; and on the empty string or the
\* empty list each operation returns its default value.
C12_FallbackAndDefaults ==
    /\ pc \in {"called", "returned"}
    /\ raised # "none" => Returned("extract_keywords")
    /\ (Returned("extract_keywords") /\ raised # "none") =>
          LET hits == GazetteerHitsInOrder(call.job_description) IN
          /\ result = SubSeq(hits, 1, IF Len(hits) < 15 THEN Len(hits) ELSE 15)
          /\ Len(result) <= 15
    /\ (Returned("extract_keywords") /\ call.job_description = "") => result = <<>>
    /\ (Returned("tokenize") /\ call.text = "") => result = <<>>
    /\ (Returned("extract_ngrams") /\ call.words = <<>>) => result = <<>>
    /\ (Returned("calculate_tfidf")
          /\ \A i \in 1..Len(call.documents) : call.documents[i] = "") => DOMAIN result = {}
    /\ (Returned("merge_keywords") /\ call.keywords = <<>>) => result = call.resume_text
    /\ (Returned("merge_keywords") /\ call.resume_text = "" /\ call.keywords # <<>>) =>
          startswith(result, "\n\nRelevant Skills: ")
    /\ (Returned("enhance_resume") /\ call.resume_text = "") =>
          startswith(result, "Motivated student seeking opportunities")
    /\ (Returned("generate_star_bullets") /\ call.experience_text = "") => result = <<>>
    /\ (Returned("generate_cover_letter") /\ call.name = "" /\ call.job_description = ""
          /\ call.resume_text = "") =>
          /\ Contains(result, "relevant field")
          /\ endswith(result, "Your Name")

\* the build step of the set raises on a text with 17 gazetteer entries: the
\* first 15 of them are returned
C12_Witness ==
    /\ Returned("extract_keywords")
    /\ raised = "set"
    /\ Len(GazetteerHitsInOrder(call.job_description)) = 17
    /\ Len(result) = 15
    /\ result[1] = "python"
    /\ result[15] = "nlp"

=============================================================================
